---- MODULE Spec2Model ----
(***************************************************************************)
(* Book directory: an Express application over one PostgreSQL table,       *)
(* `books` (src/server.js).  Every handler is an async function: its       *)
(* synchronous prefix runs when the request arrives, each                  *)
(* `await pool.query(...)` is one statement executed by the store at some  *)
(* later moment, and the code after the await builds the response from     *)
(* the statement's result.                                                 *)
(*                                                                         *)
(* Values.  A JSON field or a column is an option: Absent (undefined /     *)
(* SQL NULL) or Some(v).  Strings are sequences of one-character strings,  *)
(* integers are integers, a request's price is a number counted in         *)
(* thousandths and a stored price (DECIMAL(10,2)) is counted in cents.     *)
(*                                                                         *)
(* The store is assumed reachable: the only failing statements modelled    *)
(* are those whose failure is decided by their parameters.                 *)
(***************************************************************************)
EXTENDS Integers, Sequences, FiniteSets, TLC

VARIABLES
    books,      \* the rows of table books
    seq,        \* last value handed out by the SERIAL column's sequence
    now,        \* the store's clock
    inflight,   \* statements issued by a handler and not yet answered
    nreq,       \* number of requests received so far
    resp,       \* the last response sent
    issued,     \* history: ids returned by successful creates
    deleted,    \* history: ids whose DELETE was confirmed to the client
    everStats   \* history: the aggregates of every state the table was in

vars == <<books, seq, now, inflight, nreq, resp, issued, deleted, everStats>>

----------------------------------------------------------------------------
\* Bounds of the model.

MaxReqs == 4
MaxInFlight == 2
MaxIds == 2
MaxClock == 1

----------------------------------------------------------------------------
\* Values.

Absent == <<>>
Some(v) == <<v>>
Val(x) == x[1]

\* JavaScript truthiness of a string-valued field: undefined and "" are falsy.
FalsyStr(x) == x = Absent \/ x = Some(<<>>)

\* JavaScript truthiness of a number-valued field: undefined and 0 are falsy.
FalsyNum(x) == x = Absent \/ x = Some(0)

\* `x || null` as written in the parameter lists of INSERT and UPDATE.
StrOrNull(x) == IF FalsyStr(x) THEN Absent ELSE x
NumOrNull(x) == IF FalsyNum(x) THEN Absent ELSE x

\* price DECIMAL(10,2): the store rounds the supplied number to two decimals,
\* half away from zero.  Supplied prices are thousandths, stored ones cents.
ToCents(m) == IF m >= 0 THEN (m + 5) \div 10 ELSE -((5 - m) \div 10)

PriceOrNull(x) == IF FalsyNum(x) THEN Absent ELSE Some(ToCents(Val(x)))

\* LOWER() of the store, on the characters used here.
LowerChar(c) ==
    CASE c = "D" -> "d"
      [] c = "H" -> "h"
      [] c = "E" -> "e"
      [] c = "S" -> "s"
      [] OTHER -> c

Lower(s) == [i \in 1..Len(s) |-> LowerChar(s[i])]

----------------------------------------------------------------------------
\* The integer input conversion the store applies to the text parameter bound
\* to `id = $n`: optional blanks, an optional sign, one or more digits,
\* optional blanks, and a value that fits the column's type.

INT4_MAX == 2147483647

Digits == <<"0", "1", "2", "3", "4", "5", "6", "7", "8", "9">>

IsDigit(c) == \E d \in 1..10 : Digits[d] = c

DigitVal(c) == (CHOOSE d \in 1..10 : Digits[d] = c) - 1

RECURSIVE TrimLeft(_)
TrimLeft(s) == IF s # <<>> /\ Head(s) = " " THEN TrimLeft(Tail(s)) ELSE s

RECURSIVE TrimRight(_)
TrimRight(s) ==
    IF s # <<>> /\ s[Len(s)] = " " THEN TrimRight(SubSeq(s, 1, Len(s) - 1)) ELSE s

RECURSIVE DigitsValue(_, _)
DigitsValue(s, acc) ==
    IF s = <<>> THEN acc ELSE DigitsValue(Tail(s), acc * 10 + DigitVal(Head(s)))

Unsigned(s) ==
    IF s # <<>> /\ Head(s) \in {"+", "-"} THEN Tail(s) ELSE s

\* Whether the text is accepted as an integer.
IsInt4(s) ==
    LET t == TrimRight(TrimLeft(s))
        u == Unsigned(t)
    IN  /\ u # <<>>
        /\ \A i \in 1..Len(u) : IsDigit(u[i])
        /\ DigitsValue(u, 0) <= INT4_MAX

\* Its value, for an accepted text.
Int4(s) ==
    LET t == TrimRight(TrimLeft(s))
        u == Unsigned(t)
    IN  IF Head(t) = "-" THEN -DigitsValue(u, 0) ELSE DigitsValue(u, 0)

----------------------------------------------------------------------------
\* Requests and responses.

NoBook == [id |-> 0]

NoBody == [title |-> Absent, author |-> Absent, year |-> Absent, genre |-> Absent,
           pages |-> Absent, price |-> Absent, isbn |-> Absent,
           description |-> Absent]

NoStats == [totalBooks |-> 0, uniqueAuthors |-> 0, uniqueGenres |-> 0,
            totalValue |-> 0]

\* A statement in flight.  `pc` is "sent" (issued by the handler) or "begun"
\* (its transaction has started and `ts` holds the transaction's start time).
\* For GET /api/stats, `k` counts the reads already answered, `acc` holds
\* their results, `snap` the table the first read ran on and `dirty` records
\* that a row was written after the first read.  `dels` remembers the deletes confirmed before the request arrived.
Request(n, op, id, body, search, genre) ==
    [n |-> n, op |-> op, id |-> id, body |-> body, search |-> search,
     genre |-> genre, pc |-> "sent", ts |-> 0, k |-> 0, acc |-> NoStats,
     snap |-> {}, dirty |-> FALSE, dels |-> deleted]

\* A response: the status and what res.json() sent (`out`; `error` tells
\* that the body is { error: ... }).
Response(r, status, out, error) ==
    [n |-> r.n, op |-> r.op, id |-> r.id, body |-> r.body, search |-> r.search,
     genre |-> r.genre, status |-> status, out |-> out, error |-> error,
     dirty |-> r.dirty, dels |-> r.dels]

----------------------------------------------------------------------------
\* The aggregates of GET /api/stats, each as its own statement computes it.

\* SELECT COUNT(*) FROM books
CountBooks(bs) == Cardinality(bs)

\* A count of the authors as spelled, without LOWER().
CountAuthorsExact(bs) == Cardinality({b.author : b \in bs})

\* SELECT COUNT(DISTINCT LOWER(author)) FROM books
CountAuthors(bs) == Cardinality({Lower(b.author) : b \in bs})

\* SELECT COUNT(DISTINCT genre) FROM books WHERE genre IS NOT NULL AND genre != ''
CountGenres(bs) ==
    Cardinality({b.genre : b \in {x \in bs : x.genre # Absent /\ x.genre # Some(<<>>)}})

RECURSIVE SumCents(_)
SumCents(bs) ==
    IF bs = {} THEN 0
    ELSE LET b == CHOOSE x \in bs : TRUE IN Val(b.price) + SumCents(bs \ {b})

\* SELECT SUM(price) FROM books WHERE price IS NOT NULL: NULL over no rows.
SumPrice(bs) ==
    LET priced == {b \in bs : b.price # Absent}
    IN  IF priced = {} THEN Absent ELSE Some(SumCents(priced))

\* parseFloat(total || 0): the sum arrives as a decimal string, which is
\* truthy even when it reads "0.00"; only NULL takes the `|| 0` branch.
TotalValue(total) == IF total = Absent THEN 0 ELSE Val(total)

\* What the four statements would answer if all ran on the table bs.
Aggregates(bs) ==
    [totalBooks |-> CountBooks(bs), uniqueAuthors |-> CountAuthors(bs),
     uniqueGenres |-> CountGenres(bs), totalValue |-> TotalValue(SumPrice(bs))]

----------------------------------------------------------------------------
\* The store.

\* An id taken from the table instead: one more than the highest id stored.
NextValReuse(s, bs) ==
    IF bs = {} THEN 1
    ELSE (CHOOSE m \in {b.id : b \in bs} : \A b \in bs : b.id <= m) + 1

\* nextval of the SERIAL column's sequence: never hands out a value twice.
NextVal(s, bs) == s + 1

\* The value UPDATE assigns to updated_at: CURRENT_TIMESTAMP, the start time
\* of the statement's transaction.
UpdatedAt(r, old) == r.ts

\* The row INSERT ... RETURNING * stores for parameter list `body`.
NewRow(id, body, ts) ==
    [id |-> id, title |-> Val(body.title), author |-> Val(body.author),
     year |-> NumOrNull(body.year), genre |-> StrOrNull(body.genre),
     pages |-> NumOrNull(body.pages), price |-> PriceOrNull(body.price),
     isbn |-> StrOrNull(body.isbn), description |-> StrOrNull(body.description),
     created_at |-> ts, updated_at |-> ts]

\* The row UPDATE ... SET ... RETURNING * leaves in place of `old`.
SetRow(old, body, ts) ==
    [old EXCEPT !.title = Val(body.title), !.author = Val(body.author),
                !.year = NumOrNull(body.year), !.genre = StrOrNull(body.genre),
                !.pages = NumOrNull(body.pages), !.price = PriceOrNull(body.price),
                !.isbn = StrOrNull(body.isbn),
                !.description = StrOrNull(body.description),
                !.updated_at = ts]

\* WHERE id = $n, for a parameter the store accepted as an integer.
RowsById(bs, id) == {b \in bs : b.id = Int4(id)}

\* s LIKE p: % matches any run of characters, _ any one character, and a
\* backslash makes the character after it literal.
RECURSIVE Like(_, _)
Like(s, p) ==
    IF p = <<>> THEN s = <<>>
    ELSE IF Head(p) = "%"
         THEN Like(s, Tail(p)) \/ (s # <<>> /\ Like(Tail(s), p))
    ELSE IF Head(p) = "\\"
         THEN /\ Len(p) >= 2
              /\ s # <<>>
              /\ Head(s) = p[2]
              /\ Like(Tail(s), SubSeq(p, 3, Len(p)))
    ELSE /\ s # <<>>
         /\ Head(p) = "_" \/ Head(p) = Head(s)
         /\ Like(Tail(s), Tail(p))

\* col ILIKE p, NULL ILIKE p being no match.
ILike(col, p) == col # Absent /\ Like(Lower(Val(col)), Lower(p))

\* The parameter `%${search}%`.
Pattern(search) == <<"%">> \o search \o <<"%">>

\* `if (search)` / `if (genre)`: a query parameter that is a non-empty string.
Given(param) == ~FalsyStr(param)

\* (title ILIKE $1 OR author ILIKE $1 OR description ILIKE $1)
SearchCond(b, search) ==
    \/ ILike(Some(b.title), Pattern(search))
    \/ ILike(Some(b.author), Pattern(search))
    \/ ILike(b.description, Pattern(search))

\* genre = $n
GenreCond(b, genre) == b.genre # Absent /\ Val(b.genre) = genre

\* The WHERE clause the handler assembles: the conditions joined by AND.
Where(bs, search, genre) ==
    {b \in bs : /\ Given(search) => SearchCond(b, Val(search))
                /\ Given(genre) => GenreCond(b, Val(genre))}

\* ORDER BY created_at DESC: every arrangement of the rows that is sorted,
\* rows of equal created_at in any order.
OrderByCreatedDesc(rows) ==
    {sq \in [1..Cardinality(rows) -> rows] :
        /\ \A i, j \in 1..Cardinality(rows) : i # j => sq[i] # sq[j]
        /\ \A i, j \in 1..Cardinality(rows) :
                i < j => sq[i].created_at >= sq[j].created_at}

\* The table the reads would run on inside one transaction with a snapshot:
\* the table of the first read.
StatsTableFrozen(r, bs) == IF r.k = 0 THEN bs ELSE r.snap

\* The table a read of GET /api/stats runs on: each statement is on its own,
\* so each sees the table as it is when it runs.
StatsTable(r, bs) == bs

\* The result of the k-th statement of GET /api/stats, stored in its field.
StatsField(acc, k, bs) ==
    CASE k = 0 -> [acc EXCEPT !.totalBooks = CountBooks(bs)]
      [] k = 1 -> [acc EXCEPT !.uniqueAuthors = CountAuthors(bs)]
      [] k = 2 -> [acc EXCEPT !.uniqueGenres = CountGenres(bs)]
      [] k = 3 -> [acc EXCEPT !.totalValue = TotalValue(SumPrice(bs))]

\* A statement that wrote a row is seen by the reads of a running stats request.
MarkDirty(S) ==
    {IF q.op = "stats" /\ q.k > 0 THEN [q EXCEPT !.dirty = TRUE] ELSE q : q \in S}

\* A presence check of the title alone.
MissingTitleOnly(body) == FalsyStr(body.title)

\* `if (!title || !author)`
MissingRequired(body) == FalsyStr(body.title) \/ FalsyStr(body.author)

Arrive == nreq < MaxReqs /\ nreq' = nreq + 1

Issue(r) == Cardinality(inflight) < MaxInFlight /\ inflight' = inflight \cup {r}

Init ==
    /\ books = {}
    /\ seq = 0
    /\ now = 0
    /\ inflight = {}
    /\ nreq = 0
    /\ resp = [n |-> 0, op |-> "none", id |-> <<>>, body |-> NoBody,
               search |-> Absent, genre |-> Absent, status |-> 0, out |-> NoBook,
               error |-> FALSE, dirty |-> FALSE, dels |-> {}]
    /\ issued = {}
    /\ deleted = {}
    /\ everStats = {Aggregates({})}

----------------------------------------------------------------------------
\* Handlers, up to their await.

\* POST /api/books
PostBook(B) ==
    \E body \in B :
        LET r == Request(nreq + 1, "create", <<>>, body, Absent, Absent) IN
        /\ Arrive
        /\ IF MissingRequired(body)
           THEN /\ resp' = Response(r, 400, NoBook, TRUE)
                /\ UNCHANGED inflight
           ELSE /\ seq + Cardinality({q \in inflight : q.op = "create"}) < MaxIds
                /\ Issue(r)
                /\ UNCHANGED resp
        /\ UNCHANGED <<books, seq, now, issued, deleted, everStats>>

\* PUT /api/books/:id
PutBook(T, B) ==
    \E id \in T, body \in B :
        LET r == Request(nreq + 1, "update", id, body, Absent, Absent) IN
        /\ Arrive
        /\ IF MissingRequired(body)
           THEN /\ resp' = Response(r, 400, NoBook, TRUE)
                /\ UNCHANGED inflight
           ELSE /\ Issue(r)
                /\ UNCHANGED resp
        /\ UNCHANGED <<books, seq, now, issued, deleted, everStats>>

\* DELETE /api/books/:id
DeleteBook(T) ==
    \E id \in T :
        /\ Arrive
        /\ Issue(Request(nreq + 1, "delete", id, NoBody, Absent, Absent))
        /\ UNCHANGED <<books, seq, now, resp, issued, deleted, everStats>>

\* GET /api/books/:id
GetBook(T) ==
    \E id \in T :
        /\ Arrive
        /\ Issue(Request(nreq + 1, "get", id, NoBody, Absent, Absent))
        /\ UNCHANGED <<books, seq, now, resp, issued, deleted, everStats>>

\* GET /api/books
GetBooks(S, G) ==
    \E search \in S, genre \in G :
        /\ Arrive
        /\ Issue(Request(nreq + 1, "list", <<>>, NoBody, search, genre))
        /\ UNCHANGED <<books, seq, now, resp, issued, deleted, everStats>>

\* GET /api/stats
GetStats ==
    /\ Arrive
    /\ Issue(Request(nreq + 1, "stats", <<>>, NoBody, Absent, Absent))
    /\ UNCHANGED <<books, seq, now, resp, issued, deleted, everStats>>

----------------------------------------------------------------------------
\* The store's steps.

Tick ==
    /\ now < MaxClock
    /\ now' = now + 1
    /\ UNCHANGED <<books, seq, inflight, nreq, resp, issued, deleted, everStats>>

\* The transaction of an INSERT or UPDATE starts: CURRENT_TIMESTAMP is fixed.
Begin ==
    \E r \in inflight :
        /\ r.pc = "sent"
        /\ r.op \in {"create", "update"}
        /\ inflight' = (inflight \ {r}) \cup {[r EXCEPT !.pc = "begun", !.ts = now]}
        /\ UNCHANGED <<books, seq, now, nreq, resp, issued, deleted, everStats>>

\* INSERT INTO books (...) VALUES (...) RETURNING *, then res.status(201)
InsertExec ==
    \E r \in inflight :
        /\ r.pc = "begun"
        /\ r.op = "create"
        /\ LET row == NewRow(NextVal(seq, books), r.body, r.ts) IN
            /\ books' = books \cup {row}
            /\ seq' = seq + 1
            /\ resp' = Response(r, 201, row, FALSE)
            /\ issued' = issued \cup {row.id}
        /\ inflight' = MarkDirty(inflight \ {r})
        /\ everStats' = everStats \cup {Aggregates(books')}
        /\ UNCHANGED <<now, nreq, deleted>>

\* UPDATE books SET ... WHERE id = $9 RETURNING *, then 404 or the row
UpdateExec ==
    \E r \in inflight :
        /\ r.pc = "begun"
        /\ r.op = "update"
        /\ IF ~IsInt4(r.id)
           THEN /\ resp' = Response(r, 500, NoBook, TRUE)
                /\ inflight' = inflight \ {r}
                /\ UNCHANGED books
           ELSE IF RowsById(books, r.id) = {}
           THEN /\ resp' = Response(r, 404, NoBook, TRUE)
                /\ inflight' = inflight \ {r}
                /\ UNCHANGED books
           ELSE LET old == CHOOSE b \in RowsById(books, r.id) : TRUE
                    row == SetRow(old, r.body, UpdatedAt(r, old))
                IN  /\ books' = (books \ {old}) \cup {row}
                    /\ resp' = Response(r, 200, row, FALSE)
                    /\ inflight' = MarkDirty(inflight \ {r})
        /\ everStats' = everStats \cup {Aggregates(books')}
        /\ UNCHANGED <<seq, now, nreq, issued, deleted>>

\* DELETE FROM books WHERE id = $1 RETURNING *, then 404 or the confirmation
DeleteExec ==
    \E r \in inflight :
        /\ r.op = "delete"
        /\ IF ~IsInt4(r.id)
           THEN /\ resp' = Response(r, 500, NoBook, TRUE)
                /\ inflight' = inflight \ {r}
                /\ UNCHANGED <<books, deleted>>
           ELSE IF RowsById(books, r.id) = {}
           THEN /\ resp' = Response(r, 404, NoBook, TRUE)
                /\ inflight' = inflight \ {r}
                /\ UNCHANGED <<books, deleted>>
           ELSE /\ books' = books \ RowsById(books, r.id)
                /\ resp' = Response(r, 200, NoBook, FALSE)
                /\ inflight' = MarkDirty(inflight \ {r})
                /\ deleted' = deleted \cup {Int4(r.id)}
        /\ everStats' = everStats \cup {Aggregates(books')}
        /\ UNCHANGED <<seq, now, nreq, issued>>

\* SELECT * FROM books WHERE id = $1, then 404 or the row
SelectExec ==
    \E r \in inflight :
        /\ r.op = "get"
        /\ IF ~IsInt4(r.id)
           THEN resp' = Response(r, 500, NoBook, TRUE)
           ELSE IF RowsById(books, r.id) = {}
           THEN resp' = Response(r, 404, NoBook, TRUE)
           ELSE resp' = Response(r, 200, CHOOSE b \in RowsById(books, r.id) : TRUE, FALSE)
        /\ inflight' = inflight \ {r}
        /\ UNCHANGED <<books, seq, now, nreq, issued, deleted, everStats>>

\* SELECT * FROM books [WHERE ...] ORDER BY created_at DESC, then the rows
ListExec ==
    \E r \in inflight :
        /\ r.op = "list"
        /\ \E rows \in OrderByCreatedDesc(Where(books, r.search, r.genre)) :
                resp' = Response(r, 200, rows, FALSE)
        /\ inflight' = inflight \ {r}
        /\ UNCHANGED <<books, seq, now, nreq, issued, deleted, everStats>>

\* One of the four SELECTs of GET /api/stats; after the fourth, res.json(...)
StatsRead ==
    \E r \in inflight :
        /\ r.op = "stats"
        /\ LET acc == StatsField(r.acc, r.k, StatsTable(r, books))
               q == [r EXCEPT !.acc = acc, !.k = r.k + 1,
                              !.snap = IF r.k = 0 THEN books ELSE r.snap]
           IN  IF r.k < 3
               THEN /\ inflight' = (inflight \ {r}) \cup {q}
                    /\ UNCHANGED resp
               ELSE /\ inflight' = inflight \ {r}
                    /\ resp' = Response(q, 200, acc, FALSE)
        /\ UNCHANGED <<books, seq, now, nreq, issued, deleted, everStats>>

----------------------------------------------------------------------------
\* Inputs.

Dune == <<"D", "u", "n", "e">>
Emma == <<"E", "m", "m", "a">>
Herb == <<"H", "e", "r", "b">>
HerbLower == <<"h", "e", "r", "b">>
SciFi == <<"S", "F">>

FullBody ==
    [title |-> Some(Dune), author |-> Some(Herb), year |-> Some(1965),
     genre |-> Some(SciFi), pages |-> Some(412), price |-> Some(12500),
     isbn |-> Some(<<"9">>), description |-> Some(<<"e", "p", "i", "c">>)]

\* Only the required fields.
MinBody == [NoBody EXCEPT !.title = Some(Emma), !.author = Some(HerbLower)]

\* Every optional field supplied with a zero or an empty value.
ZeroBody ==
    [title |-> Some(Emma), author |-> Some(Herb), year |-> Some(0),
     genre |-> Some(<<>>), pages |-> Some(0), price |-> Some(0),
     isbn |-> Some(<<>>), description |-> Some(<<>>)]

NoTitleBody == [NoBody EXCEPT !.author = Some(Herb)]

EmptyAuthorBody == [FullBody EXCEPT !.author = Some(<<>>)]

BodiesCrud == {FullBody, ZeroBody, NoTitleBody, EmptyAuthorBody}

\* Path parameters: the ids the sequence hands out, and a non-numeric segment.
IdTokens == {<<Digits[i + 1]>> : i \in 1..MaxIds} \cup {<<"a", "b", "c">>}

NextCrud ==
    \/ Tick
    \/ PostBook(BodiesCrud)
    \/ PutBook(IdTokens, BodiesCrud)
    \/ DeleteBook(IdTokens)
    \/ GetBook(IdTokens)
    \/ Begin
    \/ InsertExec
    \/ UpdateExec
    \/ DeleteExec
    \/ SelectExec

Spec == Init /\ [][NextCrud]_vars

\* Bodies for the aggregates: two authors that differ only in case, books
\* with and without a genre and a price.
BodiesStats == {FullBody, MinBody}

NextStats ==
    \/ PostBook(BodiesStats)
    \/ PutBook({<<"1">>}, {MinBody})
    \/ DeleteBook({<<"1">>})
    \/ GetStats
    \/ Begin
    \/ InsertExec
    \/ UpdateExec
    \/ DeleteExec
    \/ StatsRead

SpecStats == Init /\ [][NextStats]_vars

\* Query parameters: none, empty, a word in another case, the wildcards of
\* LIKE, and a word no book holds.
Searches ==
    {Absent, Some(<<>>), Some(<<"d", "u", "n", "e">>), Some(<<"%">>),
     Some(<<"_">>), Some(<<"x">>)}

Genres == {Absent, Some(SciFi)}

BodiesList == {FullBody, MinBody}

NextList ==
    \/ Tick
    \/ PostBook(BodiesList)
    \/ Begin
    \/ InsertExec
    \/ GetBooks(Searches, Genres)
    \/ ListExec

SpecList == Init /\ [][NextList]_vars

\* Create and Update alone, with bodies that pass and bodies that fail the
\* presence check, on an id that may exist and on a non-numeric one.
BodiesValid == {FullBody, NoTitleBody, EmptyAuthorBody}

NextValid ==
    \/ PostBook(BodiesValid)
    \/ PutBook({<<"1">>, <<"a", "b", "c">>}, BodiesValid)
    \/ Begin
    \/ InsertExec
    \/ UpdateExec

SpecValid == Init /\ [][NextValid]_vars

\* The ids the sequence hands out, as path parameters.
IdsOnly == {<<Digits[i + 1]>> : i \in 1..MaxIds}

\* Deletes and reads of an id racing with creates and updates.
NextDel ==
    \/ PostBook({FullBody})
    \/ PutBook(IdsOnly, {MinBody})
    \/ DeleteBook(IdsOnly)
    \/ GetBook(IdsOnly)
    \/ Begin
    \/ InsertExec
    \/ UpdateExec
    \/ DeleteExec
    \/ SelectExec

SpecDel == Init /\ [][NextDel]_vars

\* Creates racing with each other and with deletes, under a running clock.
NextNew ==
    \/ Tick
    \/ PostBook({FullBody})
    \/ DeleteBook(IdsOnly)
    \/ Begin
    \/ InsertExec
    \/ DeleteExec

SpecNew == Init /\ [][NextNew]_vars

----------------------------------------------------------------------------
\* Vocabulary of the properties.

\* The step sends a response.
Responds == resp'.n # resp.n

\* No row has the id the path segment names.
NoMatch(bs, id) == ~IsInt4(id) \/ \A b \in bs : b.id # Int4(id)

\* The stored option `col` is exactly the supplied option `given`.
SameField(col, given) == col = given

\* The stored price is exactly the supplied price (cents against thousandths).
SamePrice(col, given) ==
    /\ col = Absent <=> given = Absent
    /\ given # Absent => Val(col) * 10 = Val(given)

\* The six optional columns of `row` are those the request supplied.
OptionalAsSupplied(row, body) ==
    /\ SameField(row.year, body.year)
    /\ SameField(row.genre, body.genre)
    /\ SameField(row.pages, body.pages)
    /\ SamePrice(row.price, body.price)
    /\ SameField(row.isbn, body.isbn)
    /\ SameField(row.description, body.description)

\* t occurs in s as a literal substring, letter case ignored.
ContainsCI(s, t) ==
    \E i \in 1..(Len(s) - Len(t) + 1) :
        \A j \in 1..Len(t) : LowerChar(s[i + j - 1]) = LowerChar(t[j])

\* The book satisfies the search string: title, author or description holds it.
Matches(b, t) ==
    \/ ContainsCI(b.title, t)
    \/ ContainsCI(b.author, t)
    \/ b.description # Absent /\ ContainsCI(Val(b.description), t)

\* The rows of a list response.
RowsOf(out) == {out[i] : i \in DOMAIN out}

\* The sum of the prices of the books that have one, 0 when none has.
RECURSIVE PriceSum(_)
PriceSum(bs) ==
    IF bs = {} THEN 0
    ELSE LET b == CHOOSE x \in bs : TRUE
         IN  (IF b.price = Absent THEN 0 ELSE Val(b.price)) + PriceSum(bs \ {b})

\* The k-th counter of a stats record.
Counter(acc, k) ==
    CASE k = 0 -> acc.totalBooks
      [] k = 1 -> acc.uniqueAuthors
      [] k = 2 -> acc.uniqueGenres
      [] k = 3 -> acc.totalValue

----------------------------------------------------------------------------
\* C1: a Create or Update whose title or author is absent or empty is
\* answered 400 with an error body, no statement for it is ever in flight,
\* and the table, the sequence and hence the total count are what they were
\* before the request; for Update whatever the id.
C1_InvalidNeverReachesStore ==
    [][/\ \A q \in inflight' :
            q.op \in {"create", "update"} =>
                /\ q.body.title # Absent /\ q.body.title # Some(<<>>)
                /\ q.body.author # Absent /\ q.body.author # Some(<<>>)
       /\ (/\ Responds
           /\ resp'.op \in {"create", "update"}
           /\ \/ resp'.body.title \in {Absent, Some(<<>>)}
              \/ resp'.body.author \in {Absent, Some(<<>>)})
          => /\ resp'.status = 400
             /\ resp'.error
             /\ books' = books
             /\ seq' = seq
             /\ Cardinality(books') = Cardinality(books)]_vars

\* An Update of an existing book with an empty author was refused.
C1_Witness ==
    /\ resp.op = "update"
    /\ resp.status = 400
    /\ resp.body.author = Some(<<>>)
    /\ IsInt4(resp.id)
    /\ RowsById(books, resp.id) # {}

\* C2: Get answers 404 for every id that matches no book, a non-numeric path
\* segment included.
C2_GetUnmatchedIsNotFound ==
    [][(Responds /\ resp'.op = "get" /\ NoMatch(books, resp'.id))
          => resp'.status = 404]_vars

\* C3: a Get that arrives after a Delete of its id was confirmed answers 404,
\* whatever ran in between.
C3_DeletedStaysNotFound ==
    (resp.op = "get" /\ IsInt4(resp.id) /\ Int4(resp.id) \in resp.dels)
        => resp.status = 404

\* A Get of a deleted id answered 404 after a later Create had stored a book.
C3_Witness ==
    /\ resp.op = "get"
    /\ IsInt4(resp.id)
    /\ Int4(resp.id) \in resp.dels
    /\ resp.status = 404
    /\ books # {}
    /\ \A b \in books : b.id > Int4(resp.id)

\* C4: a successful Update keeps id and created_at, never lowers updated_at,
\* and changes no other book.
C4_UpdateAdvancesUpdatedAt ==
    [][(Responds /\ resp'.op = "update" /\ resp'.status = 200)
          => \E old \in books :
                /\ old.id = resp'.out.id
                /\ old.created_at = resp'.out.created_at
                /\ old.updated_at <= resp'.out.updated_at
                /\ books' \ {resp'.out} = books \ {old}]_vars

\* What does hold of every successful Update: id and created_at are kept and
\* no other book is touched.
UpdateKeepsIdentity ==
    [][(Responds /\ resp'.op = "update" /\ resp'.status = 200)
          => \E old \in books :
                /\ old.id = resp'.out.id
                /\ old.created_at = resp'.out.created_at
                /\ books' \ {resp'.out} = books \ {old}]_vars

\* C5: a successful Create returns an id no earlier Create returned, on a
\* row whose created_at equals its updated_at.
C5_CreateIdIsFresh ==
    [][(Responds /\ resp'.op = "create" /\ resp'.status = 201)
          => /\ resp'.out.id \notin issued
             /\ resp'.out.created_at = resp'.out.updated_at
             /\ resp'.out \in books']_vars

\* A Create succeeded after an earlier book had been deleted.
C5_Witness ==
    /\ resp.op = "create"
    /\ resp.status = 201
    /\ deleted # {}
    /\ Cardinality(issued) > 1

\* C6: after a successful Create or Update every optional field of the stored
\* book is absent exactly when the request omitted it and otherwise holds the
\* supplied value, a zero or an empty string included.
C6_OptionalFieldsAsSupplied ==
    [][(Responds /\ resp'.op \in {"create", "update"} /\ resp'.status \in {200, 201})
          => /\ resp'.out \in books'
             /\ OptionalAsSupplied(resp'.out, resp'.body)]_vars

\* C9: every Update or Delete on an existing id is applied whole and none is
\* refused: once an Update is applied the book holds, in all eight editable
\* fields, the values of that one request; once a Delete is applied the book
\* is gone, and an Update or Delete that finds no book answers 404.
C9_LastAppliedWins ==
    [][(/\ Responds
        /\ resp'.op \in {"update", "delete"}
        /\ IsInt4(resp'.id)
        /\ resp'.status # 400)
          => IF NoMatch(books, resp'.id)
             THEN resp'.status = 404 /\ books' = books
             ELSE /\ resp'.status = 200
                  /\ resp'.op = "delete" => NoMatch(books', resp'.id)
                  /\ resp'.op = "update" =>
                        \E b \in books' :
                            /\ b.id = Int4(resp'.id)
                            /\ b.title = Val(resp'.body.title)
                            /\ b.author = Val(resp'.body.author)
                            /\ OptionalAsSupplied(b, resp'.body)]_vars

\* What does hold of every Update and Delete: it is applied whole, the book
\* holding after an Update the row that this one request's parameter list
\* binds, and none is refused for a conflict.
AppliedWholeAsBound ==
    [][(/\ Responds
        /\ resp'.op \in {"update", "delete"}
        /\ IsInt4(resp'.id)
        /\ resp'.status # 400)
          => IF NoMatch(books, resp'.id)
             THEN resp'.status = 404 /\ books' = books
             ELSE /\ resp'.status = 200
                  /\ resp'.op = "delete" => NoMatch(books', resp'.id)
                  /\ resp'.op = "update" =>
                        \E b \in books', old \in books :
                            /\ old.id = Int4(resp'.id)
                            /\ b = SetRow(old, resp'.body, b.updated_at)]_vars

\* C7: List returns exactly the books that satisfy every filter present: a
\* non-empty search is held, as a literal substring and whatever the letter
\* case, by title, author or description; a genre equals the book's genre.
C7_ListReturnsExactlyMatches ==
    [][(Responds /\ resp'.op = "list")
          => RowsOf(resp'.out) =
                {b \in books :
                    /\ (resp'.search # Absent /\ Val(resp'.search) # <<>>)
                            => Matches(b, Val(resp'.search))
                    /\ (resp'.genre # Absent /\ Val(resp'.genre) # <<>>)
                            => b.genre = resp'.genre}]_vars

\* C8: with no write between its reads, Stats answers the number of books,
\* of distinct authors whatever the letter case, of distinct genres that are
\* neither absent nor empty, and the sum of the prices present (0 for none).
C8_StatsOfQuietTable ==
    [][(Responds /\ resp'.op = "stats" /\ ~resp'.dirty)
          => /\ resp'.status = 200
             /\ resp'.out.totalBooks = Cardinality(books)
             /\ resp'.out.uniqueAuthors = Cardinality({Lower(b.author) : b \in books})
             /\ resp'.out.uniqueGenres =
                    Cardinality({b.genre : b \in books} \ {Absent, Some(<<>>)})
             /\ resp'.out.totalValue = PriceSum(books)]_vars

\* Stats of two books by one author spelled in two cases, one of them with a
\* genre and a price.
C8_Witness ==
    /\ resp.op = "stats"
    /\ ~resp.dirty
    /\ resp.out.totalBooks = 2
    /\ resp.out.uniqueAuthors = 1
    /\ resp.out.uniqueGenres = 1
    /\ resp.out.totalValue = 1250

\* C10: each of the four reads of Stats answers from the table as it is when
\* that read runs, with no snapshot shared between them, and the response is
\* a 200 whether or not rows were written in between.
C10_StatsReadsAreSeparate ==
    [][\A r \in inflight :
          (/\ r.op = "stats"
           /\ \/ \E q \in inflight' : q.n = r.n /\ q.k = r.k + 1
              \/ r.k = 3 /\ Responds /\ resp'.n = r.n)
          => LET acc == IF r.k = 3 THEN resp'.out
                        ELSE (CHOOSE q \in inflight' : q.n = r.n).acc
             IN  /\ Counter(acc, r.k) = Counter(Aggregates(books), r.k)
                 /\ \A k \in 0..3 : k # r.k => Counter(acc, k) = Counter(r.acc, k)
                 /\ r.k = 3 => resp'.status = 200 /\ ~resp'.error]_vars

\* A 200 response whose four counters are the aggregates of no state the
\* table was ever in.
C10_Witness ==
    /\ resp.op = "stats"
    /\ resp.status = 200
    /\ resp.dirty
    /\ resp.out \notin everStats

====
